---------------------------- MODULE Spec2Model ----------------------------
(***************************************************************************)
(* A model of search_parser.py: the hostname extractor, the result parser, *)
(* the API client call and the batch orchestrator that fans the calls out  *)
(* over a thread pool and appends the tallies to a CSV file.               *)
(*                                                                         *)
(* Strings that the program only passes around (search terms, payload      *)
(* fields) are TLA+ strings.  URLs, which the program parses, are          *)
(* sequences of one-character strings.  JSON values are tagged records:    *)
(*   [t |-> "null"], [t |-> "str", s |-> chars], [t |-> "obj", f |-> fun], *)
(*   [t |-> "arr", a |-> seq].                                             *)
(* A Python dict whose order matters (the hostname tally) is a sequence of *)
(* <<key, value>> pairs with distinct keys.                                *)
(***************************************************************************)
EXTENDS Integers, Sequences, FiniteSets, TLC

VARIABLES
    \* ---- the batch run (process_in_batches and its workers)
    payload,        \* the shared payload["data"] dict of main()
    search_terms,   \* the list of terms handed to process_in_batches
    batch_size,     \* max_workers of the pool
    responses,      \* what the HTTP endpoint answers to the i-th submitted call
    fut,            \* per submitted call: its future and the worker's position
    main_pc,        \* position of the thread running process_in_batches
    finished,       \* as_completed: futures found done when it started
    waiter,         \* as_completed: futures that completed since, in order
    appending,      \* append_to_csv calls in progress: call -> next row;
                    \* the rows before it are in the file object's buffer
    recording,      \* calls whose append_to_csv has returned and whose
                    \* results.append (line 83) has not run yet
    raised,         \* calls for which the try block of the loop has raised
                    \* and whose except clause (lines 86-87) has not run yet
    file,           \* the characters of the output CSV on disk
    file_initial,   \* what the file held before the first run
    file_first_run, \* what the file held when the first run returned
    results,        \* the results list of process_in_batches
    notices,        \* st.error messages shown so far
    notices_first_run, \* st.error messages shown when the first run returned
    run,            \* "first" or "second" invocation of process_in_batches
    \* ---- one call of parse_organic_results
    parse_in,       \* the json_data argument
    parse_out,      \* the returned hostname_count
    \* ---- one call of call_api
    call_in,        \* the search_term argument and what requests.post does
    call_out        \* the payload after the call, the POSTs made, the outcome

batch_vars == <<payload, search_terms, batch_size, responses, fut, main_pc,
                finished, waiter, appending, recording, raised, file,
                file_initial, file_first_run, results, notices,
                notices_first_run, run>>
parse_vars == <<parse_in, parse_out>>
call_vars == <<call_in, call_out>>
vars == <<batch_vars, parse_vars, call_vars>>

(***************************************************************************)
(* Bounds of the model.                                                    *)
(***************************************************************************)
MaxTerms == 2      \* longest search_terms list
MaxWorkers == 2    \* largest batch_size
MaxHead == 2       \* organic list = head \o filler^k \o tail
MaxFill == 9
MaxTail == 1

(***************************************************************************)
(* Program constants.                                                      *)
(***************************************************************************)
TopN == 10         \* organic_results[:10]
HttpOk == 200      \* response.status_code == 200

(***************************************************************************)
(* Sequence helpers.                                                       *)
(***************************************************************************)
Min(a, b) == IF a <= b THEN a ELSE b

SeqsUpTo(S, n) == UNION {[1..k -> S] : k \in 0..n}

Repeat(x, k) == [i \in 1..k |-> x]

\* str.find(c) + 1: position of the first occurrence, 0 when there is none
Find(s, C) ==
    IF \E i \in 1..Len(s) : s[i] \in C
    THEN CHOOSE i \in 1..Len(s) : s[i] \in C /\ \A j \in 1..(i-1) : s[j] \notin C
    ELSE 0

\* str.rfind(c) + 1
RFind(s, C) ==
    IF \E i \in 1..Len(s) : s[i] \in C
    THEN CHOOSE i \in 1..Len(s) : s[i] \in C /\ \A j \in (i+1)..Len(s) : s[j] \notin C
    ELSE 0

From(s, i) == SubSeq(s, i, Len(s))

RECURSIVE Flatten(_)
Flatten(ss) == IF ss = <<>> THEN <<>> ELSE Head(ss) \o Flatten(Tail(ss))

(***************************************************************************)
(* urllib.parse.urlparse(url).hostname over the alphabet of the model's    *)
(* URLs (letters, a digit, ':', '/', '@', '?').                            *)
(***************************************************************************)
Letters == {"a", "b", "h", "A", "B", "H"}
Digits == {"8"}
SchemeChars == Letters \cup Digits

Lower(c) == CASE c = "A" -> "a" [] c = "B" -> "b" [] c = "H" -> "h" [] OTHER -> c

LowerStr(s) == [i \in 1..Len(s) |-> Lower(s[i])]

\* urlsplit: the url left after a leading "scheme:" is taken off
AfterScheme(url) ==
    LET i == Find(url, {":"})
    IN  IF i > 1 /\ url[1] \in Letters
              /\ \A j \in 1..(i-1) : url[j] \in SchemeChars
        THEN From(url, i + 1)
        ELSE url

\* urlsplit: the netloc, the text between a leading "//" and the next / or ?
Netloc(url) ==
    LET rest == AfterScheme(url)
    IN  IF Len(rest) >= 2 /\ rest[1] = "/" /\ rest[2] = "/"
        THEN LET r == From(rest, 3)
                 d == Find(r, {"/", "?"})
             IN  IF d = 0 THEN r ELSE SubSeq(r, 1, d - 1)
        ELSE <<>>

\* the Python value None
None == [t |-> "none"]

\* ParseResult.hostname: netloc without userinfo and port, lowercased; None
\* when it is empty
Hostname(url) ==
    LET netloc == Netloc(url)
        hostinfo == From(netloc, RFind(netloc, {"@"}) + 1)
        c == Find(hostinfo, {":"})
        host == IF c = 0 THEN hostinfo ELSE SubSeq(hostinfo, 1, c - 1)
    IN  IF host = <<>> THEN None ELSE [t |-> "str", s |-> LowerStr(host)]

(***************************************************************************)
(* JSON values.                                                            *)
(***************************************************************************)
JNull == [t |-> "null"]
JStr(s) == [t |-> "str", s |-> s]
JObj(f) == [t |-> "obj", f |-> f]
JArr(a) == [t |-> "arr", a |-> a]
EmptyDict == JObj(<<>>)

\* a raised exception, as the value of an expression
Raised == [t |-> "raise"]

\* dict.get(key, default); AttributeError on a value that is no dict
Get(v, key, default) ==
    IF v.t = "raise" THEN Raised
    ELSE IF v.t # "obj" THEN Raised
    ELSE IF key \in DOMAIN v.f THEN v.f[key] ELSE default

\* extract_hostname(url): urlparse(url).hostname, None on any exception;
\* a link that is no string has no hostname
extract_hostname(url) ==
    IF url.t = "str" THEN Hostname(url.s) ELSE None


(***************************************************************************)
(* pd.Series(links).value_counts().to_dict(): each distinct hostname with  *)
(* its number of occurrences, most frequent first, ties in order of first  *)
(* appearance.                                                             *)
(***************************************************************************)
Count(links, h) == Cardinality({i \in 1..Len(links) : links[i] = h})

\* the distinct elements in order of first appearance
RECURSIVE Unique(_)
Unique(links) ==
    IF links = <<>> THEN <<>>
    ELSE LET rest == Unique(SubSeq(links, 1, Len(links) - 1))
             last == links[Len(links)]
         IN  IF \E i \in 1..Len(rest) : rest[i] = last THEN rest
             ELSE Append(rest, last)

RECURSIVE SortByCount(_, _)
SortByCount(keys, links) ==
    IF keys = <<>> THEN <<>>
    ELSE LET i == CHOOSE i \in 1..Len(keys) :
                    /\ \A j \in 1..Len(keys) : Count(links, keys[j]) <= Count(links, keys[i])
                    /\ \A j \in 1..(i-1) : Count(links, keys[j]) < Count(links, keys[i])
             rest == SubSeq(keys, 1, i - 1) \o SubSeq(keys, i + 1, Len(keys))
         IN  <<<<keys[i], Count(links, keys[i])>>>> \o SortByCount(rest, links)

value_counts(links) == SortByCount(Unique(links), links)

\* a dict, as the value of an expression
Dict(items) == [t |-> "dict", items |-> items]

(***************************************************************************)
(* parse_organic_results(json_data)                                        *)
(***************************************************************************)
\* json_data.get("results", {}).get("results", {}).get("organic", [])
OrganicResults(body) ==
    Get(Get(Get(body, "results", EmptyDict), "results", EmptyDict),
        "organic", JArr(<<>>))

\* Top10 without the [:10] slice
Top10All(organic) ==
    CASE organic.t = "arr" -> organic
      [] organic.t = "str" -> JArr([i \in 1..Len(organic.s) |-> JStr(<<organic.s[i]>>)])
      [] OTHER -> Raised

\* organic_results[:10]: a list or a string can be sliced, None and a dict
\* cannot
Top10(organic) ==
    CASE organic.t = "arr" -> JArr(SubSeq(organic.a, 1, Min(TopN, Len(organic.a))))
      [] organic.t = "str" -> JArr([i \in 1..Min(TopN, Len(organic.s)) |-> JStr(<<organic.s[i]>>)])
      [] OTHER -> Raised

\* the loop body: result.get("link", "") and extract_hostname
LinkHostname(result) ==
    LET link == Get(result, "link", JStr(<<>>))
    IN  IF link.t = "raise" THEN Raised ELSE extract_hostname(link)

\* the links list after the loop over top_10 (hostnames that are truthy)
Links(top) ==
    LET hs == [i \in 1..Len(top) |-> LinkHostname(top[i])]
        RECURSIVE Keep(_)
        Keep(k) == IF k = 0 THEN <<>>
                   ELSE IF hs[k].t = "str" THEN Append(Keep(k - 1), hs[k].s)
                   ELSE Keep(k - 1)
    IN  IF \E i \in 1..Len(top) : hs[i].t = "raise" THEN Raised
        ELSE [t |-> "list", a |-> Keep(Len(top))]

parse_organic_results(json_data) ==
    LET top_10 == Top10(OrganicResults(json_data))
    IN  IF top_10.t = "raise" THEN Raised
        ELSE LET hostnames == Links(top_10.a)
             IN  IF hostnames.t = "raise" THEN Raised
                 ELSE Dict(value_counts(hostnames.a))

(***************************************************************************)
(* call_api(api_url, api_key, payload, search_term)                        *)
(*                                                                         *)
(* What requests.post does is an input: a transport exception, or a        *)
(* response with a status code and a body that is a JSON value or text     *)
(* that response.json() cannot decode.                                     *)
(***************************************************************************)
TransportError == [kind |-> "exception"]
Response(status, body) == [kind |-> "response", status_code |-> status, body |-> body]
Malformed == [t |-> "malformed"]

\* payload["data"]["q"] = search_term
SetQ(data, search_term) ==
    [k \in DOMAIN data \cup {"q"} |-> IF k = "q" THEN search_term ELSE data[k]]

\* a function's outcome: a returned value or a raised exception
Return(v) == [t |-> "return", v |-> v]

\* response.json()
ResponseJson(resp) == IF resp.body.t = "malformed" THEN Raised ELSE resp.body

\* TryBlock without the test of response.status_code
TryBlockAnyStatus(search_term, resp) ==
    IF resp.kind = "exception" THEN Raised
    ELSE LET decoded == ResponseJson(resp)
             counts == IF decoded.t = "raise" THEN Raised
                       ELSE parse_organic_results(decoded)
         IN  IF counts.t = "raise" THEN Raised ELSE Return(<<search_term, counts>>)

\* the body of the try block, given what requests.post did
TryBlock(search_term, resp) ==
    IF resp.kind = "exception" THEN Raised
    ELSE IF resp.status_code = HttpOk
    THEN LET decoded == ResponseJson(resp)
             counts == IF decoded.t = "raise" THEN Raised
                       ELSE parse_organic_results(decoded)
         IN  IF counts.t = "raise" THEN Raised ELSE Return(<<search_term, counts>>)
    ELSE Return(<<search_term, None>>)

\* ExceptClause that lets the exception through
ExceptClauseReraise(outcome, search_term) == outcome

\* except Exception: return search_term, None
ExceptClause(outcome, search_term) ==
    IF outcome.t = "raise" THEN Return(<<search_term, None>>) ELSE outcome

\* the outcome of call_api after the POST
CallApiOutcome(search_term, resp) ==
    ExceptClause(TryBlock(search_term, resp), search_term)

\* Truthy as `if hostname_count is not None:`
TruthyNotNone(hostname_count) == hostname_count.t = "dict"

\* `if hostname_count:` a non-empty dict is truthy, None and {} are not
Truthy(hostname_count) ==
    hostname_count.t = "dict" /\ hostname_count.items # <<>>

\* the rows append_to_csv hands to writer.writerow for one term
Rows(search_term, data) ==
    [k \in 1..Len(data.items) |-> <<search_term, data.items[k][1], data.items[k][2]>>]

\* the characters of a search term
Chars(search_term) ==
    CASE search_term = "t0" -> <<"t", "0">>
      [] search_term = "t1" -> <<"t", "1">>
      [] search_term = "t2" -> <<"t", "2">>

\* str(count), as csv.writer writes a number
DigitChar(d) == <<"0", "1", "2", "3", "4", "5", "6", "7", "8", "9">>[d + 1]

RECURSIVE Decimal(_)
Decimal(n) ==
    IF n < 10 THEN <<DigitChar(n)>>
    ELSE Decimal(n \div 10) \o <<DigitChar(n % 10)>>

\* csv.writer with the default dialect (QUOTE_MINIMAL): a field holding the
\* delimiter, the quote character or a line break is put in quotes, with
\* its quotes doubled
NeedsQuote(field) ==
    \E k \in 1..Len(field) : field[k] \in {",", "\"", "\r", "\n"}

Quoted(field) ==
    <<"\"">>
    \o Flatten([k \in 1..Len(field) |->
                   IF field[k] = "\"" THEN <<"\"", "\"">> ELSE <<field[k]>>])
    \o <<"\"">>

CsvField(field) == IF NeedsQuote(field) THEN Quoted(field) ELSE field

\* writer.writerow([search_term, hostname, count]): the fields joined by
\* commas and the line terminator "\r\n", which open(..., newline="")
\* leaves as it is
writerow(row) ==
    CsvField(Chars(row[1])) \o <<",">> \o CsvField(row[2]) \o <<",">>
    \o CsvField(Decimal(row[3])) \o <<"\r", "\n">>

\* the characters the writerow calls for these rows produce
CsvText(rows) == Flatten([k \in 1..Len(rows) |-> writerow(rows[k])])


(***************************************************************************)
(* Inputs of the model.                                                    *)
(***************************************************************************)
Terms == {"t1", "t2"}

UrlA == <<"h", ":", "/", "/", "a">>                  \* h://a     -> a
UrlA2 == <<"H", ":", "/", "/", "A", "/", "b">>       \* H://A/b   -> a
UrlB == <<"/", "/", "h", "@", "b", ":", "8">>        \* //h@b:8   -> b
UrlNoHost == <<"a", "/", "b">>                       \* a/b       -> None

Entry(url) == JObj([link |-> JStr(url)])
EntryNoLink == JObj([title |-> JStr(<<"a">>)])
EntryNullLink == JObj([link |-> JNull])

Body(organic) == JObj([results |-> JObj([results |-> JObj([organic |-> organic])])])

\* bodies with a level missing, or with a level that is no dict or no list
OddBodies ==
    { JObj(<<>>),
      JObj([results |-> JObj(<<>>)]),
      JObj([results |-> JObj([results |-> JObj(<<>>)])]),
      JObj([results |-> JNull]),
      JArr(<<>>),
      Body(JNull),
      Body(JObj(<<>>)),
      Body(JStr(<<>>)),
      Body(JStr(UrlA)),
      Body(JArr(<<JNull>>)),
      Body(JArr(<<Entry(UrlA), JStr(UrlB)>>)) }

HeadEntries == {Entry(UrlA), Entry(UrlA2), Entry(UrlB), EntryNoLink}
FillEntries == {Entry(UrlA), Entry(UrlNoHost), EntryNoLink, EntryNullLink}

OrganicLists ==
    { h \o Repeat(f, k) \o tl :
        h \in SeqsUpTo(HeadEntries, MaxHead), f \in FillEntries,
        k \in 0..MaxFill, tl \in SeqsUpTo(HeadEntries, MaxTail) }

ParseInputs == OddBodies \cup {Body(JArr(o)) : o \in OrganicLists}

GoodBody == Body(JArr(<<Entry(UrlA), Entry(UrlB), Entry(UrlA2)>>))
EmptyBody == Body(JArr(<<>>))

CallBodies ==
    OddBodies \cup {Malformed, GoodBody, EmptyBody,
                    Body(JArr(<<EntryNoLink, Entry(UrlNoHost)>>))}

CallResponses ==
    {TransportError} \cup {Response(st, b) : st \in {200, 201, 500}, b \in CallBodies}

\* what the endpoint may answer to one call of a batch
BatchResponses ==
    { Response(200, GoodBody), Response(200, EmptyBody),
      Response(500, GoodBody), TransportError }

\* the payload["data"] dict main() builds, with the form's default values
PayloadTemplate ==
    [domain |-> "google.com", loc |-> "Delhi,India", lang |-> "en",
     device |-> "desktop", serp_type |-> "web", page |-> "1", verbatim |-> "0"]

Pending == [t |-> "pending"]

\* CallApiOutcome on the inputs of a batch, tabulated
BatchOutcome ==
    [term \in Terms, resp \in BatchResponses |-> CallApiOutcome(term, resp)]

(***************************************************************************)
(* One call of parse_organic_results.                                      *)
(***************************************************************************)
ParseOrganicResults ==
    /\ parse_out = Pending
    /\ parse_out' = parse_organic_results(parse_in)
    /\ UNCHANGED <<parse_in, batch_vars, call_vars>>

(***************************************************************************)
(* One call of call_api: the statements up to the POST, then the rest.     *)
(***************************************************************************)
CallApiPost ==
    /\ call_out.pc = "start"
    /\ call_out' = [call_out EXCEPT !.pc = "posted",
                                    !.payload = SetQ(call_in.payload, call_in.search_term),
                                    !.posts = @ + 1,
                                    !.sent = SetQ(call_in.payload, call_in.search_term)]
    /\ UNCHANGED <<call_in, batch_vars, parse_vars>>

CallApiReturn ==
    /\ call_out.pc = "posted"
    /\ call_out' = [call_out EXCEPT !.pc = "done",
                                    !.outcome = CallApiOutcome(call_in.search_term,
                                                               call_in.response)]
    /\ UNCHANGED <<call_in, batch_vars, parse_vars>>


(***************************************************************************)
(* The batch run: process_in_batches on one thread, call_api on the        *)
(* pool's worker threads.  Call i is the call submitted for                *)
(* search_terms[i].  A worker takes a call from the pool's queue and runs  *)
(* call_api in three more steps: the write of payload["data"]["q"], the    *)
(* POST (which serialises the payload as it is then), and the rest up to   *)
(* the future's completion.  append_to_csv is an open, one writerow per    *)
(* row into the file object's buffer, and a close that writes the buffered *)
(* rows to the file (the rows of one term stay below the buffer's size);   *)
(* it is taken not to fail.                                                *)
(***************************************************************************)
Calls == 1..Len(search_terms)

NewFuture == [state |-> "new", sent |-> <<>>, outcome |-> Pending, seen |-> FALSE]

OldRow == <<"t0", <<"a">>, 1>>

\* an output file left by an earlier run
OldFile == CsvText(<<OldRow>>)

FailedNotice(term) == [kind |-> "failed", term |-> term]     \* line 85
ErrorNotice(term) == [kind |-> "error", term |-> term]       \* line 87

\* PoolHasFreeWorker of a pool that starts a thread per call
PoolUnbounded == TRUE

\* ThreadPoolExecutor(max_workers=batch_size): a queued call starts only
\* when fewer than batch_size calls are running
PoolHasFreeWorker ==
    Cardinality({j \in Calls : fut[j].state \in {"taken", "running", "inflight"}})
        < batch_size

\* MainAtLoopTop when results are handled as they complete, without waiting
\* for the append in progress
MainInLoop == main_pc = "loop"

\* the loop of process_in_batches takes the next future only when the body
\* for the previous one has finished
MainAtLoopTop ==
    main_pc = "loop" /\ DOMAIN appending = {} /\ recording = {} /\ raised = {}

\* LoopExhausted with a break after the first failure notice
LoopStopsOnFailure == (\A j \in Calls : fut[j].seen) \/ notices # <<>>

\* as_completed is exhausted once it has yielded every future
LoopExhausted == \A j \in Calls : fut[j].seen

\* OpenFile with mode="w"
OpenFileTruncate(f) == <<>>

\* open(filename, mode="a"): the rows already in the file stay
OpenFile(f) == f

\* what the file held when the current run started
RunStart == IF run = "first" THEN file_initial ELSE file_first_run

\* executor.submit(call_api, ..., term) for the next term of the list
Submit(i) ==
    /\ main_pc = "submit"
    /\ fut[i].state = "new"
    /\ \A j \in 1..(i-1) : fut[j].state # "new"
    /\ fut' = [fut EXCEPT ![i].state = "queued"]
    /\ UNCHANGED <<payload, search_terms, batch_size, responses, main_pc,
                   finished, waiter, appending, recording, raised, file, file_initial,
                   file_first_run, notices_first_run, results, notices, run, parse_vars, call_vars>>

\* a worker takes the oldest queued call and enters call_api (lines 46-50
\* build the headers, which no other thread sees)
Take(i) ==
    /\ fut[i].state = "queued"
    /\ \A j \in 1..(i-1) : fut[j].state # "queued"
    /\ PoolHasFreeWorker
    /\ fut' = [fut EXCEPT ![i].state = "taken"]
    /\ UNCHANGED <<payload, search_terms, batch_size, responses, main_pc,
                   finished, waiter, appending, recording, raised, file, file_initial,
                   file_first_run, notices_first_run, results, notices, run, parse_vars, call_vars>>

\* payload["data"]["q"] = search_term, in whatever order the workers get
\* there
Start(i) ==
    /\ fut[i].state = "taken"
    /\ payload' = SetQ(payload, search_terms[i])
    /\ fut' = [fut EXCEPT ![i].state = "running"]
    /\ UNCHANGED <<search_terms, batch_size, responses, main_pc,
                   finished, waiter, appending, recording, raised, file, file_initial,
                   file_first_run, notices_first_run, results, notices, run, parse_vars, call_vars>>

\* requests.post(api_url, json=payload, headers=headers) sends the payload
Post(i) ==
    /\ fut[i].state = "running"
    /\ fut' = [fut EXCEPT ![i].state = "inflight", ![i].sent = payload]
    /\ UNCHANGED <<payload, search_terms, batch_size, responses, main_pc,
                   finished, waiter, appending, recording, raised, file, file_initial,
                   file_first_run, notices_first_run, results, notices, run, parse_vars, call_vars>>

\* the POST ends, call_api returns and the future completes
Complete(i) ==
    /\ fut[i].state = "inflight"
    /\ fut' = [fut EXCEPT ![i].state = "done",
                          ![i].outcome = BatchOutcome[search_terms[i], responses[i]]]
    /\ waiter' = IF main_pc = "submit" THEN waiter ELSE Append(waiter, i)
    /\ UNCHANGED <<payload, search_terms, batch_size, responses, main_pc,
                   finished, appending, recording, raised, file, file_initial,
                   file_first_run, notices_first_run, results, notices, run, parse_vars, call_vars>>

\* as_completed(futures) starts: the futures already done are yielded first
AsCompleted ==
    /\ main_pc = "submit"
    /\ \A j \in Calls : fut[j].state # "new"
    /\ finished' = {j \in Calls : fut[j].state = "done"}
    /\ main_pc' = "loop"
    /\ UNCHANGED <<payload, search_terms, batch_size, responses, fut,
                   waiter, appending, recording, raised, file, file_initial,
                   file_first_run, notices_first_run, results, notices, run, parse_vars, call_vars>>

\* the loop takes a completed future and inspects its result (lines 78-82,
\* 84-85): future.result() returns what call_api returned or raises what it
\* raised; a truthy hostname_count enters append_to_csv, whose open() opens
\* the output file or raises (a directory, a read-only file, ...)
Yield(i) ==
    /\ MainAtLoopTop
    /\ \/ i \in finished
       \/ finished = {} /\ waiter # <<>> /\ i = Head(waiter)
    /\ finished' = finished \ {i}
    /\ waiter' = IF i \in finished THEN waiter ELSE Tail(waiter)
    /\ fut' = [fut EXCEPT ![i].seen = TRUE]
    /\ LET outcome == fut[i].outcome
       IN  IF outcome.t = "raise"
           THEN /\ raised' = raised \cup {i}
                /\ UNCHANGED <<file, appending, notices>>
           ELSE IF Truthy(outcome.v[2])
           THEN \/ /\ file' = OpenFile(file)
                   /\ appending' = (i :> 1) @@ appending
                   /\ UNCHANGED <<raised, notices>>
                \/ /\ raised' = raised \cup {i}
                   /\ UNCHANGED <<file, appending, notices>>
           ELSE /\ notices' = Append(notices, FailedNotice(outcome.v[1]))
                /\ UNCHANGED <<file, appending, raised>>
    /\ UNCHANGED <<payload, search_terms, batch_size, responses, main_pc,
                   recording, file_initial, file_first_run, notices_first_run,
                   results, run, parse_vars, call_vars>>

\* the characters writer.writerow has put in the buffer of call i's file
\* object
Buffered(i) ==
    CsvText(SubSeq(Rows(fut[i].outcome.v[1], fut[i].outcome.v[2]),
                   1, appending[i] - 1))

\* writer.writerow([search_term, hostname, count]) for the next item: the
\* line goes to the file object's buffer, the file on disk stays as it is
WriteRow(i) ==
    /\ i \in DOMAIN appending
    /\ appending[i] <= Len(fut[i].outcome.v[2].items)
    /\ appending' = [appending EXCEPT ![i] = @ + 1]
    /\ UNCHANGED <<payload, search_terms, batch_size, responses, fut, main_pc,
                   finished, waiter, recording, raised, file, file_initial,
                   file_first_run, notices_first_run, results, notices, run,
                   parse_vars, call_vars>>

\* the with block of append_to_csv ends: the buffered characters are
\* written to the end of the file and append_to_csv returns
CloseFile(i) ==
    /\ i \in DOMAIN appending
    /\ appending[i] > Len(fut[i].outcome.v[2].items)
    /\ file' = file \o Buffered(i)
    /\ appending' = [j \in DOMAIN appending \ {i} |-> appending[j]]
    /\ recording' = recording \cup {i}
    /\ UNCHANGED <<payload, search_terms, batch_size, responses, fut, main_pc,
                   finished, waiter, raised, file_initial, file_first_run,
                   notices_first_run, results, notices, run, parse_vars,
                   call_vars>>

\* an I/O error inside the with block of append_to_csv (the disk is full,
\* the file size limit is hit, the device fails): the with block closes the
\* file, as many of the buffered characters as could be written are at the
\* end of the file, possibly ending in the middle of a row, and the
\* exception leaves append_to_csv
AppendRaises(i) ==
    /\ i \in DOMAIN appending
    /\ \E k \in 0..Len(Buffered(i)) : file' = file \o SubSeq(Buffered(i), 1, k)
    /\ appending' = [j \in DOMAIN appending \ {i} |-> appending[j]]
    /\ raised' = raised \cup {i}
    /\ UNCHANGED <<payload, search_terms, batch_size, responses, fut, main_pc,
                   finished, waiter, recording, file_initial, file_first_run,
                   notices_first_run, results, notices, run, parse_vars,
                   call_vars>>

\* results.append((search_term, hostname_count)) (line 83)
AppendResult(i) ==
    /\ i \in recording
    /\ recording' = recording \ {i}
    /\ results' = Append(results, fut[i].outcome.v)
    /\ UNCHANGED <<payload, search_terms, batch_size, responses, fut, main_pc,
                   finished, waiter, appending, raised, file, file_initial,
                   file_first_run, notices_first_run, notices, run,
                   parse_vars, call_vars>>

\* except Exception as e: st.error("Error processing term: ...") with
\* term = futures[future] (lines 86-87); results.append is skipped
ReportError(i) ==
    /\ i \in raised
    /\ raised' = raised \ {i}
    /\ notices' = Append(notices, ErrorNotice(search_terms[i]))
    /\ UNCHANGED <<payload, search_terms, batch_size, responses, fut, main_pc,
                   finished, waiter, appending, recording, file, file_initial,
                   file_first_run, notices_first_run, results, run,
                   parse_vars, call_vars>>

\* the loop ends, the executor shuts down and process_in_batches returns
ReturnResults ==
    /\ MainAtLoopTop
    /\ LoopExhausted
    /\ \A j \in Calls : fut[j].state = "done"
    /\ main_pc' = "returned"
    /\ file_first_run' = IF run = "first" THEN file ELSE file_first_run
    /\ notices_first_run' = IF run = "first" THEN notices ELSE notices_first_run
    /\ UNCHANGED <<payload, search_terms, batch_size, responses, fut,
                   finished, waiter, appending, recording, raised, file,
                   file_initial, results, notices, run, parse_vars, call_vars>>

\* main() runs again with the same inputs: a fresh payload, the same terms,
\* the same answers from the endpoint, the same output file
Rerun ==
    /\ main_pc = "returned"
    /\ run = "first"
    /\ run' = "second"
    /\ payload' = PayloadTemplate
    /\ fut' = [j \in Calls |-> NewFuture]
    /\ main_pc' = "submit"
    /\ finished' = {}
    /\ waiter' = <<>>
    /\ results' = <<>>
    /\ notices' = <<>>
    /\ UNCHANGED <<search_terms, batch_size, responses, appending, recording, raised, file,
                   file_initial, file_first_run, notices_first_run, parse_vars, call_vars>>

(***************************************************************************)
(* Initial states and specifications.                                      *)
(***************************************************************************)
ParseIdle == parse_in = JNull /\ parse_out = [t |-> "idle"]

CallIdle == call_in = [t |-> "idle"] /\ call_out = [pc |-> "idle"]

\* the lists of search terms of a run; the program treats every term alike,
\* so the first term of a list is the one called "t1"
TermLists == {q \in SeqsUpTo(Terms, MaxTerms) : q = <<>> \/ q[1] = "t1"}

BatchStart(terms, size, answers, old) ==
    /\ payload = PayloadTemplate
    /\ search_terms = terms
    /\ batch_size = size
    /\ responses = answers
    /\ fut = [j \in 1..Len(terms) |-> NewFuture]
    /\ main_pc = "submit"
    /\ finished = {}
    /\ waiter = <<>>
    /\ appending = <<>>
    /\ recording = {}
    /\ raised = {}
    /\ file = old
    /\ file_initial = old
    /\ file_first_run = <<>>
    /\ results = <<>>
    /\ notices = <<>>
    /\ notices_first_run = <<>>
    /\ run = "first"

BatchIdle ==
    /\ BatchStart(<<>>, 1, <<>>, <<>>)

Init ==
    /\ \E terms \in TermLists, size \in 1..MaxWorkers,
          old \in {<<>>, OldFile} :
          \E answers \in [1..Len(terms) -> BatchResponses] :
              BatchStart(terms, size, answers, old)
    /\ ParseIdle
    /\ CallIdle

Next ==
    \/ \E i \in Calls : Submit(i)
    \/ \E i \in Calls : Take(i)
    \/ \E i \in Calls : Start(i)
    \/ \E i \in Calls : Post(i)
    \/ \E i \in Calls : Complete(i)
    \/ AsCompleted
    \/ \E i \in Calls : Yield(i)
    \/ \E i \in Calls : WriteRow(i)
    \/ \E i \in Calls : CloseFile(i)
    \/ \E i \in Calls : AppendRaises(i)
    \/ \E i \in Calls : AppendResult(i)
    \/ \E i \in Calls : ReportError(i)
    \/ ReturnResults

Spec == Init /\ [][Next]_vars

\* a run with fewer workers than terms, on a new output file
FairInit ==
    /\ \E terms \in TermLists, size \in 1..MaxWorkers :
          /\ size < Len(terms)
          /\ \E answers \in [1..Len(terms) -> BatchResponses] :
                 BatchStart(terms, size, answers, <<>>)
    /\ ParseIdle
    /\ CallIdle

\* every thread that can take a step eventually takes one, and every POST
\* ends (with a response or an exception)
FairSpec == FairInit /\ [][Next]_vars /\ WF_vars(Next)

RerunNext == Next \/ Rerun

\* two runs on an output file that already holds a row
RerunInit ==
    /\ \E terms \in TermLists, size \in 1..MaxWorkers :
          \E answers \in [1..Len(terms) -> BatchResponses] :
              BatchStart(terms, size, answers, OldFile)
    /\ ParseIdle
    /\ CallIdle

RerunSpec == RerunInit /\ [][RerunNext]_vars

ParseInit ==
    /\ parse_in \in ParseInputs
    /\ parse_out = Pending
    /\ BatchIdle
    /\ CallIdle

ParseNext == ParseOrganicResults

ParseSpec == ParseInit /\ [][ParseNext]_vars

CallInit ==
    /\ call_in \in [search_term : Terms, response : CallResponses,
                    payload : {PayloadTemplate, SetQ(PayloadTemplate, "t2")}]
    /\ call_out = [pc |-> "start", payload |-> call_in.payload, posts |-> 0,
                   sent |-> <<>>, outcome |-> Pending]
    /\ BatchIdle
    /\ ParseIdle

CallNext == CallApiPost \/ CallApiReturn

CallSpec == CallInit /\ [][CallNext]_vars


(***************************************************************************)
(* Properties.                                                             *)
(***************************************************************************)
Range(q) == {q[k] : k \in 1..Len(q)}

IsPrefix(a, b) == Len(a) <= Len(b) /\ SubSeq(b, 1, Len(a)) = a

\* call i has returned a non-empty mapping
Succeeded(i) ==
    /\ fut[i].state = "done"
    /\ fut[i].outcome.t = "return"
    /\ fut[i].outcome.v[2].t = "dict"
    /\ fut[i].outcome.v[2].items # <<>>

\* call i has ended otherwise: the absence marker, an empty mapping or an
\* exception
Failed(i) == fut[i].state = "done" /\ ~Succeeded(i)

InFlight == {i \in Calls : fut[i].state = "inflight"}

ErrorNotices(q) == {k \in 1..Len(q) : q[k].kind = "error"}

FailedNotices(q) == {k \in 1..Len(q) : q[k].kind = "failed"}

\* the characters the current run has appended to the output file
AppendedText == SubSeq(file, Len(RunStart) + 1, Len(file))

\* the lines of a CSV text: the characters before each "\r\n", and what
\* follows the last one when the text does not end in a line terminator
RECURSIVE Lines(_)
Lines(text) ==
    IF text = <<>> THEN <<>>
    ELSE LET ends == {k \in 1..(Len(text) - 1) : text[k] = "\r" /\ text[k + 1] = "\n"}
         IN  IF ends = {} THEN <<text>>
             ELSE LET e == CHOOSE k \in ends : \A m \in ends : k <= m
                  IN  <<SubSeq(text, 1, e - 1)>> \o Lines(SubSeq(text, e + 2, Len(text)))

\* the fields of a line without quotes
RECURSIVE Fields(_)
Fields(line) ==
    LET commas == {k \in 1..Len(line) : line[k] = ","}
    IN  IF commas = {} THEN <<line>>
        ELSE LET c == CHOOSE k \in commas : \A m \in commas : k <= m
             IN  <<SubSeq(line, 1, c - 1)>> \o Fields(SubSeq(line, c + 1, Len(line)))

\* the rows a reader finds in a CSV text
FileRows(text) == [k \in 1..Len(Lines(text)) |-> Fields(Lines(text)[k])]

\* part occurs in text as a contiguous piece
Occurs(part, text) ==
    \E k \in 0..(Len(text) - Len(part)) : SubSeq(text, k + 1, k + Len(part)) = part

\* the characters of the block of rows of call i
Block(i) == CsvText(Rows(fut[i].outcome.v[1], fut[i].outcome.v[2]))

\* call i got HTTP 200 and returned a non-empty mapping
Succeeded200(i) ==
    /\ Succeeded(i)
    /\ responses[i].kind = "response"
    /\ responses[i].status_code = HttpOk

\* the appends of the run that have raised
Broken == Cardinality(ErrorNotices(notices)) + Cardinality(raised)

\* the non-empty leading parts of the blocks of these calls: what an append
\* of theirs has put in the file, whether it returned or raised
LeadingParts(calls) ==
    UNION {{SubSeq(Block(j), 1, n) : n \in 1..Len(Block(j))} : j \in calls}

\* text is the blocks whole[k], whole[k+1], ... in this order, with at most
\* n of the given parts before, between or after them
RECURSIVE MadeOfBlocks(_, _, _, _, _)
MadeOfBlocks(text, whole, k, parts, n) ==
    \/ text = <<>> /\ k > Len(whole)
    \/ /\ k <= Len(whole)
       /\ IsPrefix(whole[k], text)
       /\ MadeOfBlocks(SubSeq(text, Len(whole[k]) + 1, Len(text)), whole, k + 1, parts, n)
    \/ /\ n > 0
       /\ \E part \in parts :
              /\ IsPrefix(part, text)
              /\ MadeOfBlocks(SubSeq(text, Len(part) + 1, Len(text)), whole, k, parts, n - 1)

(* C1: the request body every call hands to the POST carries in q the term *)
(* that call was invoked with, in every interleaving.                      *)
PayloadIsolation ==
    \A i \in Calls :
        fut[i].state \in {"inflight", "done"} => fut[i].sent["q"] = search_terms[i]

(* C2: with a pool smaller than the list of terms, process_in_batches      *)
(* eventually returns, and when it has returned every submitted call has   *)
(* completed and its result has been inspected: its mapping is in the      *)
(* results and its block in the file, or a notice names its term (a failure*)
(* notice, or an error notice when a non-empty mapping could not be        *)
(* appended).                                                              *)
Inspected(i) ==
    /\ fut[i].state = "done"
    /\ fut[i].seen
    /\ IF Succeeded(i)
       THEN \/ /\ fut[i].outcome.v \in Range(results)
               /\ Occurs(Block(i), AppendedText)
            \/ \E k \in ErrorNotices(notices) : notices[k].term = search_terms[i]
       ELSE \E k \in FailedNotices(notices) : notices[k].term = search_terms[i]

FanInBarrier ==
    (batch_size < Len(search_terms)) =>
        /\ <>(main_pc = "returned")
        /\ [](main_pc = "returned" => \A i \in Calls : Inspected(i))

FanInWitness ==
    /\ main_pc = "returned"
    /\ batch_size < Len(search_terms)
    /\ \E i, j \in Calls : Failed(i) /\ Succeeded(j) /\ Inspected(i) /\ Inspected(j)
                           /\ fut[j].outcome.v \in Range(results)

(* C3 as stated: every row the run has appended belongs to a term one of   *)
(* whose calls got HTTP 200 and returned a non-empty mapping holding that  *)
(* hostname and count; a term all of whose calls failed or came back empty *)
(* has no row.                                                             *)
OutputFileInvariantAsStated ==
    \A r \in Range(FileRows(AppendedText)) :
        \E i \in Calls :
            /\ Succeeded200(i)
            /\ \E it \in Range(fut[i].outcome.v[2].items) :
                  r = <<Chars(search_terms[i]), it[1], Decimal(it[2])>>

(* C3 amended: everything the run has appended to the output file was      *)
(* written for rows of calls that got HTTP 200 and returned a non-empty    *)
(* mapping: it is leading parts of their blocks, one per append, so a call *)
(* that failed or came back empty contributes nothing; and as long as no   *)
(* append has raised, every row in it is (term, hostname, count) of such a *)
(* call.                                                                   *)
OutputFileInvariant ==
    /\ MadeOfBlocks(AppendedText, <<>>, 1,
                    LeadingParts({c \in Calls : fut[c].seen /\ Succeeded200(c)}),
                    Cardinality({c \in Calls : fut[c].seen}))
    /\ (Broken = 0) =>
          \A r \in Range(FileRows(AppendedText)) :
              \E i \in Calls :
                  /\ Succeeded200(i)
                  /\ \E it \in Range(fut[i].outcome.v[2].items) :
                        r = <<Chars(search_terms[i]), it[1], Decimal(it[2])>>

OutputFileWitness ==
    /\ Broken = 0
    /\ Len(FileRows(AppendedText)) = 2
    /\ \E i \in Calls : Failed(i) /\ fut[i].seen /\ responses[i].kind = "response"
                        /\ responses[i].status_code # HttpOk

(* C4 as stated: when process_in_batches has returned, every term has one  *)
(* failure notice per call of it that yielded the absence marker or an     *)
(* empty mapping, the returned list holds (term, mapping) once per call    *)
(* that yielded a non-empty mapping and nothing else, there is no other    *)
(* notice, and every call has been taken by the loop.                      *)
PartialFailureToleranceAsStated ==
    main_pc = "returned" =>
        /\ \A i \in Calls : fut[i].seen
        /\ \A t \in Terms :
              Cardinality({k \in 1..Len(notices) : notices[k].term = t})
                = Cardinality({i \in Calls : search_terms[i] = t /\ Failed(i)})
        /\ \A n \in Range(notices) : n.kind = "failed"
        /\ \A i \in Calls :
              Succeeded(i) =>
                  Cardinality({k \in 1..Len(results) : results[k] = fut[i].outcome.v})
                    = Cardinality({j \in Calls : Succeeded(j)
                                                 /\ fut[j].outcome.v = fut[i].outcome.v})
        /\ Len(results) = Cardinality({i \in Calls : Succeeded(i)})

(* C4 amended: when process_in_batches has returned, every call has been   *)
(* taken by the loop; every term has one failure notice per call of it     *)
(* that yielded the absence marker or an empty mapping; every call that    *)
(* yielded a non-empty mapping either is once in the returned list as      *)
(* (term, mapping) with no notice, or, when its append to the output file  *)
(* raised, has one error notice and no entry in the list; the list and the *)
(* notices hold nothing else.                                              *)
PartialFailureTolerance ==
    main_pc = "returned" =>
        /\ \A i \in Calls : fut[i].seen
        /\ \A t \in Terms :
              /\ Cardinality({k \in FailedNotices(notices) : notices[k].term = t})
                   = Cardinality({i \in Calls : search_terms[i] = t /\ Failed(i)})
              /\ Cardinality({k \in ErrorNotices(notices) : notices[k].term = t})
                   + Cardinality({k \in 1..Len(results) : results[k][1] = t})
                   = Cardinality({i \in Calls : search_terms[i] = t /\ Succeeded(i)})
        /\ \A k \in 1..Len(results) :
              Cardinality({m \in 1..Len(results) : results[m] = results[k]})
                <= Cardinality({j \in Calls : Succeeded(j) /\ fut[j].outcome.v = results[k]})
        /\ Range(notices) \subseteq [kind : {"failed", "error"}, term : Terms]
        /\ (ErrorNotices(notices) = {}) =>
              \A i \in Calls :
                  Succeeded(i) =>
                      Cardinality({k \in 1..Len(results) : results[k] = fut[i].outcome.v})
                        = Cardinality({j \in Calls : Succeeded(j)
                                                     /\ fut[j].outcome.v = fut[i].outcome.v})

PartialFailureWitness ==
    /\ main_pc = "returned"
    /\ Len(results) = 1
    /\ \E k \in ErrorNotices(notices) : notices[k].term = results[1][1]
    /\ \E i \in Calls : Succeeded(i) /\ fut[i].seen

(* C5 as stated: call_api makes exactly one POST and returns; on status    *)
(* 200 with a decodable body it returns (term, the Result Parser's         *)
(* mapping), on anything else (term, absence marker).                      *)
Decodable200 ==
    /\ call_in.response.kind = "response"
    /\ call_in.response.status_code = HttpOk
    /\ call_in.response.body.t # "malformed"

CallApiContractAsStated ==
    call_out.pc = "done" =>
        /\ call_out.posts = 1
        /\ call_out.outcome.t = "return"
        /\ call_out.outcome.v[1] = call_in.search_term
        /\ IF Decodable200
           THEN /\ call_out.outcome.v[2].t = "dict"
                /\ call_out.outcome.v[2] = parse_organic_results(call_in.response.body)
           ELSE call_out.outcome.v[2] = None

(* C5 amended: call_api makes exactly one POST and never raises; on status *)
(* 200 with a decodable body on which the Result Parser returns, it        *)
(* returns (term, that mapping); on a non-200 status, a transport failure, *)
(* a malformed body, or a decodable body on which the Result Parser raises *)
(* it returns (term, absence marker).                                      *)
CallApiContract ==
    call_out.pc = "done" =>
        /\ call_out.posts = 1
        /\ call_out.outcome.t = "return"
        /\ call_out.outcome.v[1] = call_in.search_term
        /\ IF Decodable200 /\ parse_organic_results(call_in.response.body).t = "dict"
           THEN call_out.outcome.v[2] = parse_organic_results(call_in.response.body)
           ELSE call_out.outcome.v[2] = None

CallApiWitness ==
    /\ call_out.pc = "done"
    /\ Decodable200
    /\ parse_organic_results(call_in.response.body).t = "raise"
    /\ call_out.outcome = Return(<<call_in.search_term, None>>)

(* C6: at most batch_size calls have started their HTTP request and not    *)
(* yet returned.                                                           *)
BoundedConcurrency == Cardinality(InFlight) <= batch_size

BoundedConcurrencyWitness ==
    /\ Cardinality(InFlight) = batch_size
    /\ \E i \in Calls : fut[i].state = "queued"

(* C7: for an organic list of objects, parse_organic_results returns the   *)
(* mapping whose keys are exactly the hostnames of the first min(10,       *)
(* length) entries and whose values are their numbers of occurrences among *)
(* those entries; later entries and entries without a hostname add nothing.*)
IsOrganicBody(j) ==
    /\ j.t = "obj" /\ "results" \in DOMAIN j.f
    /\ j.f["results"].t = "obj" /\ "results" \in DOMAIN j.f["results"].f
    /\ j.f["results"].f["results"].t = "obj"
    /\ "organic" \in DOMAIN j.f["results"].f["results"].f
    /\ j.f["results"].f["results"].f["organic"].t = "arr"
    /\ \A e \in Range(j.f["results"].f["results"].f["organic"].a) : e.t = "obj"

OrganicOf(j) == j.f["results"].f["results"].f["organic"].a

EntryHost(e) == IF "link" \in DOMAIN e.f THEN extract_hostname(e.f["link"]) ELSE None

TopTenCount ==
    (parse_out # Pending /\ IsOrganicBody(parse_in)) =>
        LET organic == OrganicOf(parse_in)
            n == IF Len(organic) < TopN THEN Len(organic) ELSE TopN
            hosts == {EntryHost(organic[i]).s :
                        i \in {k \in 1..n : EntryHost(organic[k]).t = "str"}}
        IN  /\ parse_out.t = "dict"
            /\ {it[1] : it \in Range(parse_out.items)} = hosts
            /\ Len(parse_out.items) = Cardinality(hosts)
            /\ \A it \in Range(parse_out.items) :
                  it[2] = Cardinality({i \in 1..n : EntryHost(organic[i]) = JStr(it[1])})

TopTenWitness ==
    /\ parse_out # Pending
    /\ IsOrganicBody(parse_in)
    /\ Len(OrganicOf(parse_in)) > TopN
    /\ EntryHost(OrganicOf(parse_in)[TopN + 1]) = JStr(<<"b">>)
    /\ \E i \in 1..TopN : EntryHost(OrganicOf(parse_in)[i]) = None
    /\ parse_out = Dict(<<<<<<"a">>, 2>>>>)

TemplateFrame == payload = PayloadTemplate

(* C10: at most one append_to_csv is in progress at any time, and the file *)
(* is what it held at the start of the run followed by one contiguous      *)
(* block per finished append: the whole blocks of the results list, in its *)
(* order, then the whole block of the append that has just returned, and   *)
(* no more leading parts of blocks among them than appends have raised;    *)
(* what the append in progress has written is not in it yet.               *)
SingleWriter ==
    /\ Cardinality(DOMAIN appending) <= 1
    /\ Cardinality(recording) <= 1
    /\ IsPrefix(RunStart, file)
    /\ LET blocks == [k \in 1..Len(results) |->
                         CsvText(Rows(results[k][1], results[k][2]))]
           closed == IF recording = {} THEN <<>>
                     ELSE LET i == CHOOSE i \in recording : TRUE
                          IN  <<Block(i)>>
       IN  MadeOfBlocks(AppendedText, blocks \o closed, 1,
                        LeadingParts({c \in Calls : fut[c].seen /\ Succeeded(c)}),
                        Broken)

SingleWriterWitness ==
    \E i \in DOMAIN appending :
        /\ appending[i] = 2
        /\ \E j \in Calls : j # i /\ Succeeded(j) /\ ~fut[j].seen

=============================================================================
